---- MODULE Spec2Model ----
(***************************************************************************)
(* MetricDetailsPage.tsx: the page-level view controller of a metric.      *)
(*                                                                         *)
(* The component's four useState cells, the route parameter, the pending   *)
(* passive effects and the network requests in flight are the state.  A    *)
(* Metric is a partial record: a key that is absent from the record is a   *)
(* property that is undefined in the JavaScript object.  Every async       *)
(* handler is split at its await: one action issues the request, one       *)
(* action per outcome runs the continuation up to the end of the handler.  *)
(***************************************************************************)
EXTENDS Integers, Sequences, FiniteSets, TLC

VARIABLES
    metricFqn,          \* useFqn(): the route's entity identifier
    metricDetails,      \* useState<Metric>
    isLoading,          \* useState<boolean>
    isError,            \* useState(false)
    metricPermissions,  \* useState<OperationPermission>
    pending,            \* passive effects whose dependencies changed in the last commit
    inflight,           \* requests awaiting their answer, in the order they were issued
    last,               \* the handler step that ran last and the answer it received
    calls,              \* collaborator calls (toast, history, recently viewed) made by that step
    issued,             \* requests that step sent
    permissionFqn,      \* history: the entityFqn whose answer metricPermissions holds
    had404,             \* history: some fetchMetricDetail has failed with 404
    fetchSettled,       \* history: some fetchMetricDetail call has run to its end
    events              \* number of route changes and user interactions so far

vars == <<metricFqn, metricDetails, isLoading, isError, metricPermissions,
          pending, inflight, last, calls, issued, permissionFqn, had404, fetchSettled,
          events>>

----------------------------------------------------------------------------
(* Bounds *)

MaxEvents == 2
MaxInflight == 2

----------------------------------------------------------------------------
(* Values *)

Fqns == {"sales.revenue", "sales.cost"}
Users == {"u1", "u2"}

NOT_FOUND == 404
FORBIDDEN == 403
\* a failure of any other status, and one that carries no response at all
Failure == [server |-> 500, network |-> 0]
FailureStatuses == {NOT_FOUND, FORBIDDEN, Failure.server, Failure.network}

\* `{} as Metric`
EmptyMetric == [k \in {} |-> 0]

\* { ...previous, ...overrides }
Spread(previous, overrides) ==
    [k \in (DOMAIN previous) \cup (DOMAIN overrides) |->
        IF k \in DOMAIN overrides THEN overrides[k] ELSE previous[k]]

\* an object without the property key (a property assigned undefined)
Without(obj, key) == [k \in (DOMAIN obj) \ {key} |-> obj[k]]

\* { ...previous, [key]: source[key] }
SpreadKey(previous, key, source) ==
    IF key \in DOMAIN source
    THEN Spread(previous, [k \in {key} |-> source[key]])
    ELSE Without(previous, key)

\* obj[key] === other[key]
SameAt(obj, other, key) ==
    /\ (key \in DOMAIN obj) <=> (key \in DOMAIN other)
    /\ (key \in DOMAIN obj) => obj[key] = other[key]

\* prev?.followers ?? []
FollowersOf(prev) == IF "followers" \in DOMAIN prev THEN prev.followers ELSE <<>>

\* the truthiness of metricDetails.version
CurrentVersion(details) == IF "version" \in DOMAIN details THEN details.version ELSE 0

\* the id the handlers of one render close over
MetricId(details) == IF "id" \in DOMAIN details THEN details.id ELSE "undefined"

DEFAULT_ENTITY_PERMISSION == [ViewAll |-> FALSE, ViewBasic |-> FALSE]
\* what getEntityPermissionByFqn may answer
PermissionSets ==
    { [ViewAll |-> FALSE, ViewBasic |-> FALSE], [ViewAll |-> TRUE, ViewBasic |-> FALSE],
      [ViewAll |-> FALSE, ViewBasic |-> TRUE] }

Granted(permissions) == permissions.ViewAll \/ permissions.ViewBasic

\* Tag FQNs are one-character strings, held as their character code.
TagCode == [B |-> 66, a |-> 97]

ToLowerCase(c) == IF c \in 65..90 THEN c + 32 ELSE c

RECURSIVE InsertTag(_, _)
InsertTag(sorted, tag) ==
    IF sorted = <<>> THEN <<tag>>
    ELSE IF ToLowerCase(tag) < ToLowerCase(Head(sorted))
         THEN <<tag>> \o sorted
         ELSE <<Head(sorted)>> \o InsertTag(Tail(sorted), tag)

RECURSIVE sortTagsCaseInsensitive(_)
sortTagsCaseInsensitive(tags) ==
    IF tags = <<>> THEN <<>>
    ELSE InsertTag(sortTagsCaseInsensitive(Tail(tags)), Head(tags))

\* res.tags ?? []
TagsOf(res) == IF "tags" \in DOMAIN res THEN res.tags ELSE <<>>

----------------------------------------------------------------------------
(* What the backend may answer *)

\* getMetricByFqn with the loader's field list
\* (one entity with every field set, one with the optional fields absent)
LoaderPayloads(fqn) ==
    IF fqn = "sales.revenue"
    THEN { [id |-> fqn, fullyQualifiedName |-> fqn, version |-> 1, deleted |-> FALSE,
            followers |-> <<"u1", "u2">>, tags |-> <<TagCode.B>>, description |-> "old",
            extension |-> "ext"] }
    ELSE { [id |-> fqn, fullyQualifiedName |-> fqn, version |-> 2,
            tags |-> <<TagCode.B, TagCode.a>>, extension |-> "ext"] }

\* getMetricByFqn with the vote handler's narrower field list
VotePayloads(fqn) ==
    { [id |-> fqn, fullyQualifiedName |-> fqn, version |-> 1, deleted |-> FALSE,
       followers |-> <<"u2">>, tags |-> <<TagCode.B>>, description |-> "old"] }

\* patchMetric: the entity as the server holds it after the patch
PatchPayloads(id) ==
    { [id |-> id, fullyQualifiedName |-> id, version |-> 5, deleted |-> FALSE,
       followers |-> <<"u2">>, tags |-> <<TagCode.B, TagCode.a>>,
       description |-> "Monthly revenue", extension |-> "ext2"] }

\* changeDescription.fieldsAdded[0].newValue / fieldsDeleted[0].oldValue
FollowerDeltas == { <<user>> : user \in Users }

----------------------------------------------------------------------------
(* Requests and the record of the last step *)

Request(kind, fqn, id, key) ==
    [kind |-> kind, fqn |-> fqn, id |-> id, key |-> key, overtaken |-> FALSE]

\* history: the requests for a whole entity that are still in flight when the
\* answer of another one arrives are marked as overtaken by it
Overtake(seq) ==
    [j \in DOMAIN seq |->
        IF seq[j].kind \in {"fetchMetricDetail", "getMetricByFqn"}
        THEN [seq[j] EXCEPT !.overtaken = TRUE]
        ELSE seq[j]]

NoRequest == Request("none", "", "", "")

Remove(s, i) == [j \in 1..(Len(s) - 1) |-> IF j < i THEN s[j] ELSE s[j + 1]]

\* op: the step; req: the request it answers; status, res, users: the answer;
\* arg: the argument of a synchronous handler; prev: metricDetails before a merge
Step(op, req, status, res, prev, users, arg) ==
    [op |-> op, req |-> req, status |-> status, res |-> res, prev |-> prev,
     users |-> users, arg |-> arg]

HasRoom(n) == Len(inflight) + n <= MaxInflight
CanInteract == pending = {} /\ events < MaxEvents

\* the render branches with the permission test ahead of the not-found test
View_PermissionFirst ==
    IF isLoading THEN "loader"
    ELSE IF ~metricPermissions.ViewAll /\ ~metricPermissions.ViewBasic THEN "permission"
    ELSE IF isError THEN "notFound"
    ELSE "detail"

\* the render branches without the permission placeholder of lines 284-286
View_NoPermissionBranch ==
    IF isLoading THEN "loader"
    ELSE IF isError THEN "notFound"
    ELSE "detail"

\* lines 276-304
View ==
    IF isLoading THEN "loader"
    ELSE IF isError THEN "notFound"
    ELSE IF ~metricPermissions.ViewAll /\ ~metricPermissions.ViewBasic THEN "permission"
    ELSE "detail"

----------------------------------------------------------------------------
(* Passive effects *)

\* what the effect of lines 270-274 issues
DetailEffectRequests(permissions, fqn) ==
    IF Granted(permissions) THEN <<Request("fetchMetricDetail", fqn, "", "")>> ELSE <<>>

\* what the effect of lines 266-268 issues
PermissionEffectRequests(fqn) == <<Request("getEntityPermissionByFqn", fqn, "", "")>>

EffectRequests(effects, permissions, fqn) ==
    (IF "permission" \in effects THEN PermissionEffectRequests(fqn) ELSE <<>>)
    \o (IF "detail" \in effects THEN DetailEffectRequests(permissions, fqn) ELSE <<>>)

\* React flushes the passive effects of a commit before it handles anything else
RunEffects ==
    /\ pending # {}
    /\ issued' = EffectRequests(pending, metricPermissions, metricFqn)
    /\ inflight' = inflight \o issued'
    /\ isLoading' = IF issued' # <<>> THEN TRUE ELSE isLoading
    /\ pending' = {}
    /\ last' = Step("effects", NoRequest, 0, EmptyMetric, EmptyMetric, <<>>, <<>>)
    /\ calls' = <<>>
    /\ UNCHANGED <<metricFqn, metricDetails, isError, metricPermissions, permissionFqn, had404, fetchSettled,
                   events>>

\* the route parameter changes; both effects depend on metricFqn
ChangeFqn(fqn) ==
    /\ CanInteract
    /\ HasRoom(Len(EffectRequests({"permission", "detail"}, metricPermissions, fqn)))
    /\ fqn # metricFqn
    /\ metricFqn' = fqn
    /\ pending' = {"permission", "detail"}
    /\ last' = Step("changeFqn", NoRequest, 0, EmptyMetric, EmptyMetric, <<>>, <<>>)
    /\ calls' = <<>>
    /\ issued' = <<>>
    /\ events' = events + 1
    /\ UNCHANGED <<metricDetails, isLoading, isError, metricPermissions, inflight,
                   permissionFqn, had404, fetchSettled>>

----------------------------------------------------------------------------
(* fetchResourcePermission, lines 102-119 *)

\* The continuation after a successful await.  With automatic batching the
\* two state updates commit together and the effect of lines 270-274 runs
\* after that commit; without it the effect is flushed before the update of
\* the finally block is rendered, so its setLoading(true) is applied last.
PermissionResolved(i, permissions, batched) ==
    /\ pending = {}
    /\ i \in 1..Len(inflight)
    /\ inflight[i].kind = "getEntityPermissionByFqn"
    /\ metricPermissions' = permissions
    /\ IF batched
       THEN /\ isLoading' = FALSE
            /\ pending' = {"detail"}
            /\ issued' = <<>>
       ELSE /\ issued' = DetailEffectRequests(permissions, metricFqn)
            /\ isLoading' = (issued' # <<>>)
            /\ pending' = {}
    /\ inflight' = Remove(inflight, i) \o issued'
    /\ last' = Step("fetchResourcePermission.resolved", inflight[i], 200, EmptyMetric,
                    EmptyMetric, <<>>, <<>>)
    /\ calls' = <<>>
    /\ permissionFqn' = inflight[i].fqn
    /\ UNCHANGED <<metricFqn, metricDetails, isError, had404, fetchSettled, events>>

\* a catch block that falls back to the default permissions
PermissionCatch_Reset(permissions) ==
    [metricPermissions |-> DEFAULT_ENTITY_PERMISSION, calls |-> <<"showErrorToast">>]

\* lines 110-115: what the catch block leaves in metricPermissions and reports
PermissionCatch(permissions) ==
    [metricPermissions |-> permissions, calls |-> <<"showErrorToast">>]

\* lines 110-118
PermissionRejected(i) ==
    /\ pending = {}
    /\ i \in 1..Len(inflight)
    /\ inflight[i].kind = "getEntityPermissionByFqn"
    /\ inflight' = Remove(inflight, i)
    /\ isLoading' = FALSE
    /\ metricPermissions' = PermissionCatch(metricPermissions).metricPermissions
    /\ last' = Step("fetchResourcePermission.rejected", inflight[i], Failure.server,
                    EmptyMetric, EmptyMetric, <<>>, <<>>)
    /\ calls' = PermissionCatch(metricPermissions).calls
    /\ issued' = <<>>
    /\ UNCHANGED <<metricFqn, metricDetails, isError, pending, permissionFqn, had404, fetchSettled, events>>

----------------------------------------------------------------------------
(* fetchMetricDetail, lines 121-166 *)

\* lines 122-124: the call up to its await
FetchMetricDetailCall(fqn) ==
    /\ isLoading' = TRUE
    /\ issued' = <<Request("fetchMetricDetail", fqn, "", "")>>
    /\ inflight' = inflight \o issued'

\* the fetchMetricDetails prop of the detail view, lines 292
RefreshMetricDetails ==
    /\ CanInteract
    /\ HasRoom(1)
    /\ View = "detail"
    /\ FetchMetricDetailCall(metricFqn)
    /\ last' = Step("fetchMetricDetail.called", NoRequest, 0, EmptyMetric,
                    EmptyMetric, <<>>, <<>>)
    /\ calls' = <<>>
    /\ events' = events + 1
    /\ UNCHANGED <<metricFqn, metricDetails, isError, metricPermissions, pending,
                   permissionFqn, had404, fetchSettled>>

\* a fetch that merges the answer into the entity it already holds
FetchSuccessState_Merged(previous, res) ==
    [metricDetails |-> Spread(previous, res), isLoading |-> FALSE]

\* a fetch that drops the answer for an fqn the route has left
FetchSuccessState_IgnoreStale(previous, res) ==
    [metricDetails |-> IF res.fullyQualifiedName = metricFqn THEN res ELSE previous,
     isLoading |-> FALSE]

\* a successful call without the finally block of lines 163-165
FetchSuccessState_NoFinally(previous, res) ==
    [metricDetails |-> res, isLoading |-> isLoading]

\* lines 138 and 164: the state cells the successful call writes
FetchSuccessState(previous, res) == [metricDetails |-> res, isLoading |-> FALSE]

\* lines 136-146 and 163-165
FetchResolved(i, res) ==
    /\ pending = {}
    /\ i \in 1..Len(inflight)
    /\ inflight[i].kind = "fetchMetricDetail"
    /\ res \in LoaderPayloads(inflight[i].fqn)
    /\ inflight' = Overtake(Remove(inflight, i))
    /\ metricDetails' = FetchSuccessState(metricDetails, res).metricDetails
    /\ isLoading' = FetchSuccessState(metricDetails, res).isLoading
    /\ last' = Step("fetchMetricDetail.resolved", inflight[i], 200, res,
                    metricDetails, <<>>, <<>>)
    /\ calls' = <<"addToRecentViewed">>
    /\ issued' = <<>>
    /\ UNCHANGED <<metricFqn, isError, metricPermissions, pending, permissionFqn, had404, events>>
    /\ fetchSettled' = TRUE

\* a catch block that also reports the 404 it flags
FetchCatch_ToastOn404(status) ==
    IF status = NOT_FOUND THEN [isError |-> TRUE, calls |-> <<"showErrorToast">>]
    ELSE IF status = FORBIDDEN THEN [isError |-> isError, calls |-> <<"history.replace(FORBIDDEN)">>]
    ELSE [isError |-> isError, calls |-> <<"showErrorToast">>]

\* a catch block without the branch of lines 150-153
FetchCatch_NoForbidden(status) ==
    IF status = NOT_FOUND THEN [isError |-> TRUE, calls |-> <<>>]
    ELSE [isError |-> isError, calls |-> <<"showErrorToast">>]

\* a catch block that flags every failure it reports
FetchCatch_ErrorOnAny(status) ==
    IF status = NOT_FOUND THEN [isError |-> TRUE, calls |-> <<>>]
    ELSE IF status = FORBIDDEN THEN [isError |-> isError, calls |-> <<"history.replace(FORBIDDEN)">>]
    ELSE [isError |-> TRUE, calls |-> <<"showErrorToast">>]

\* a catch block whose 404 branch flips the flag
FetchCatch_Toggle(status) ==
    IF status = NOT_FOUND THEN [isError |-> ~isError, calls |-> <<>>]
    ELSE IF status = FORBIDDEN THEN [isError |-> isError, calls |-> <<"history.replace(FORBIDDEN)">>]
    ELSE [isError |-> isError, calls |-> <<"showErrorToast">>]

\* a catch block that clears the flag when the failure is not a 404
FetchCatch_ResetsError(status) ==
    IF status = NOT_FOUND THEN [isError |-> TRUE, calls |-> <<>>]
    ELSE IF status = FORBIDDEN THEN [isError |-> FALSE, calls |-> <<"history.replace(FORBIDDEN)">>]
    ELSE [isError |-> FALSE, calls |-> <<"showErrorToast">>]

\* lines 147-162: what the catch block does with the error
FetchCatch(status) ==
    IF status = NOT_FOUND THEN [isError |-> TRUE, calls |-> <<>>]
    ELSE IF status = FORBIDDEN THEN [isError |-> isError, calls |-> <<"history.replace(FORBIDDEN)">>]
    ELSE [isError |-> isError, calls |-> <<"showErrorToast">>]

\* lines 147-165
FetchRejected(i, status) ==
    /\ pending = {}
    /\ i \in 1..Len(inflight)
    /\ inflight[i].kind = "fetchMetricDetail"
    /\ status \in FailureStatuses
    /\ inflight' = Remove(inflight, i)
    /\ isError' = FetchCatch(status).isError
    /\ calls' = FetchCatch(status).calls
    /\ issued' = <<>>
    /\ isLoading' = FALSE
    /\ had404' = (had404 \/ status = NOT_FOUND)
    /\ fetchSettled' = TRUE
    /\ last' = Step("fetchMetricDetail.rejected", inflight[i], status, EmptyMetric,
                    EmptyMetric, <<>>, <<>>)
    /\ UNCHANGED <<metricFqn, metricDetails, metricPermissions, pending, permissionFqn, events>>

----------------------------------------------------------------------------
(* handleMetricUpdate, lines 72-100 *)

Keys == {"description", "tags"}

\* an updater that merges the whole answer instead of the one key
UpdateMerge_WholeResponse(previous, res, key) ==
    IF key = "tags"
    THEN Spread(Spread(previous, res), [tags |-> sortTagsCaseInsensitive(TagsOf(res))])
    ELSE Spread(previous, res)

\* lines 82-96: the updater given to setMetricDetails
UpdateMerge(previous, res, key) ==
    IF key = "tags"
    THEN Spread(SpreadKey(previous, "version", res),
                [tags |-> sortTagsCaseInsensitive(TagsOf(res))])
    ELSE SpreadKey(SpreadKey(previous, "version", res), key, res)

\* lines 72-80: the patch is sent for the id of the render that made the call
HandleMetricUpdate(key) ==
    /\ CanInteract
    /\ HasRoom(1)
    /\ View = "detail"
    /\ key \in Keys
    /\ issued' = <<Request("patchMetric", metricFqn, MetricId(metricDetails), key)>>
    /\ inflight' = inflight \o issued'
    /\ last' = Step("handleMetricUpdate.called", NoRequest, 0, EmptyMetric,
                    EmptyMetric, <<>>, <<>>)
    /\ calls' = <<>>
    /\ events' = events + 1
    /\ UNCHANGED <<metricFqn, metricDetails, isLoading, isError, metricPermissions,
                   pending, permissionFqn, had404, fetchSettled>>

MetricUpdateResolved(i, res) ==
    /\ pending = {}
    /\ i \in 1..Len(inflight)
    /\ inflight[i].kind = "patchMetric"
    /\ res \in PatchPayloads(inflight[i].id)
    /\ inflight' = Remove(inflight, i)
    /\ metricDetails' = UpdateMerge(metricDetails, res, inflight[i].key)
    /\ last' = Step("handleMetricUpdate.resolved", inflight[i], 200, res,
                    metricDetails, <<>>, <<>>)
    /\ calls' = <<>>
    /\ issued' = <<>>
    /\ UNCHANGED <<metricFqn, isLoading, isError, metricPermissions, pending, permissionFqn,
                   had404, fetchSettled, events>>

\* lines 97-99
MetricUpdateRejected(i) ==
    /\ pending = {}
    /\ i \in 1..Len(inflight)
    /\ inflight[i].kind = "patchMetric"
    /\ inflight' = Remove(inflight, i)
    /\ last' = Step("handleMetricUpdate.rejected", inflight[i], Failure.server, EmptyMetric,
                    EmptyMetric, <<>>, <<>>)
    /\ calls' = <<"showErrorToast">>
    /\ issued' = <<>>
    /\ UNCHANGED <<metricFqn, metricDetails, isLoading, isError, metricPermissions,
                   pending, permissionFqn, had404, fetchSettled, events>>

----------------------------------------------------------------------------
(* followMetric, lines 168-184, and unFollowMetric, lines 186-204 *)

\* an updater that puts the new followers ahead of the list
FollowMerge_Prepend(prev, newValue) ==
    Spread(prev, [followers |-> newValue \o FollowersOf(prev)])

\* lines 172-175
FollowMerge(prev, newValue) ==
    Spread(prev, [followers |-> FollowersOf(prev) \o newValue])

\* followers.filter((follower) => follower.id !== id)
RECURSIVE FilterOut(_, _)
FilterOut(followers, id) ==
    IF followers = <<>> THEN <<>>
    ELSE IF Head(followers) # id
         THEN <<Head(followers)>> \o FilterOut(Tail(followers), id)
         ELSE FilterOut(Tail(followers), id)

RECURSIVE RemoveFirst(_, _)
RemoveFirst(followers, id) ==
    IF followers = <<>> THEN <<>>
    ELSE IF Head(followers) = id THEN Tail(followers)
         ELSE <<Head(followers)>> \o RemoveFirst(Tail(followers), id)

\* an updater that drops one entry of the id instead of filtering the list
UnFollowMerge_FirstOnly(prev, oldValue) ==
    Spread(prev, [followers |-> RemoveFirst(FollowersOf(prev), oldValue[1])])

\* lines 190-195
UnFollowMerge(prev, oldValue) ==
    Spread(prev, [followers |-> FilterOut(FollowersOf(prev), oldValue[1])])

FollowCall(kind) ==
    /\ CanInteract
    /\ HasRoom(1)
    /\ View = "detail"
    /\ issued' = <<Request(kind, metricFqn, MetricId(metricDetails), "")>>
    /\ inflight' = inflight \o issued'
    /\ calls' = <<>>
    /\ events' = events + 1
    /\ UNCHANGED <<metricFqn, metricDetails, isLoading, isError, metricPermissions,
                   pending, permissionFqn, had404, fetchSettled>>

FollowMetric ==
    /\ FollowCall("addMetricFollower")
    /\ last' = Step("followMetric.called", NoRequest, 0, EmptyMetric, EmptyMetric,
                    <<>>, <<>>)

UnFollowMetric ==
    /\ FollowCall("removeMetricFollower")
    /\ last' = Step("unFollowMetric.called", NoRequest, 0, EmptyMetric, EmptyMetric,
                    <<>>, <<>>)

FollowResolved(i, newValue) ==
    /\ pending = {}
    /\ i \in 1..Len(inflight)
    /\ inflight[i].kind = "addMetricFollower"
    /\ newValue \in FollowerDeltas
    /\ inflight' = Remove(inflight, i)
    /\ metricDetails' = FollowMerge(metricDetails, newValue)
    /\ last' = Step("followMetric.resolved", inflight[i], 200, EmptyMetric,
                    metricDetails, newValue, <<>>)
    /\ calls' = <<>>
    /\ issued' = <<>>
    /\ UNCHANGED <<metricFqn, isLoading, isError, metricPermissions, pending, permissionFqn,
                   had404, fetchSettled, events>>

UnFollowResolved(i, oldValue) ==
    /\ pending = {}
    /\ i \in 1..Len(inflight)
    /\ inflight[i].kind = "removeMetricFollower"
    /\ oldValue \in FollowerDeltas
    /\ inflight' = Remove(inflight, i)
    /\ metricDetails' = UnFollowMerge(metricDetails, oldValue)
    /\ last' = Step("unFollowMetric.resolved", inflight[i], 200, EmptyMetric,
                    metricDetails, oldValue, <<>>)
    /\ calls' = <<>>
    /\ issued' = <<>>
    /\ UNCHANGED <<metricFqn, isLoading, isError, metricPermissions, pending, permissionFqn,
                   had404, fetchSettled, events>>

\* lines 176-183 and 196-203: the request failed, or the answer holds no
\* change-description entry and line 171 or 189 threw
FollowRejected(i) ==
    /\ pending = {}
    /\ i \in 1..Len(inflight)
    /\ inflight[i].kind \in {"addMetricFollower", "removeMetricFollower"}
    /\ inflight' = Remove(inflight, i)
    /\ last' = Step(IF inflight[i].kind = "addMetricFollower"
                    THEN "followMetric.rejected" ELSE "unFollowMetric.rejected",
                    inflight[i], Failure.server, EmptyMetric, EmptyMetric, <<>>, <<>>)
    /\ calls' = <<"showErrorToast">>
    /\ issued' = <<>>
    /\ UNCHANGED <<metricFqn, metricDetails, isLoading, isError, metricPermissions,
                   pending, permissionFqn, had404, fetchSettled, events>>

----------------------------------------------------------------------------
(* versionHandler, handleCreateThread, handleToggleDelete, lines 206-238 *)

\* lines 206-211
VersionHandler ==
    /\ CanInteract
    /\ View = "detail"
    /\ calls' = IF CurrentVersion(metricDetails) # 0 THEN <<"history.push(version)">> ELSE <<>>
    /\ issued' = <<>>
    /\ last' = Step("versionHandler", NoRequest, 0, EmptyMetric, EmptyMetric, <<>>, <<>>)
    /\ events' = events + 1
    /\ UNCHANGED <<metricFqn, metricDetails, isLoading, isError, metricPermissions,
                   pending, inflight, permissionFqn, had404, fetchSettled>>

\* lines 213-215
HandleCreateThread ==
    /\ CanInteract
    /\ HasRoom(1)
    /\ View = "detail"
    /\ issued' = <<Request("postThread", metricFqn, "", "")>>
    /\ inflight' = inflight \o issued'
    /\ last' = Step("handleCreateThread.called", NoRequest, 0, EmptyMetric,
                    EmptyMetric, <<>>, <<>>)
    /\ calls' = <<>>
    /\ events' = events + 1
    /\ UNCHANGED <<metricFqn, metricDetails, isLoading, isError, metricPermissions,
                   pending, permissionFqn, had404, fetchSettled>>

\* lines 215-223
CreateThreadSettled(i, ok) ==
    /\ pending = {}
    /\ i \in 1..Len(inflight)
    /\ inflight[i].kind = "postThread"
    /\ inflight' = Remove(inflight, i)
    /\ last' = Step(IF ok THEN "handleCreateThread.resolved" ELSE "handleCreateThread.rejected",
                    inflight[i], IF ok THEN 200 ELSE Failure.server, EmptyMetric,
                    EmptyMetric, <<>>, <<>>)
    /\ calls' = IF ok THEN <<>> ELSE <<"showErrorToast">>
    /\ issued' = <<>>
    /\ UNCHANGED <<metricFqn, metricDetails, isLoading, isError, metricPermissions,
                   pending, permissionFqn, had404, fetchSettled, events>>

\* the optional argument: <<>> when the call passes none, <<v>> when it passes v
ToggleArguments == { <<>>, <<0>>, <<7>> }

\* !prev?.deleted
NotDeleted(prev) == IF "deleted" \in DOMAIN prev THEN ~prev.deleted ELSE TRUE

\* lines 227-237: the updater given to setMetricDetails
ToggleDeleteMerge(prev, version) ==
    Spread(Spread(prev, [deleted |-> NotDeleted(prev)]),
           IF version # <<>> /\ version[1] # 0 THEN [version |-> version[1]] ELSE EmptyMetric)

HandleToggleDelete(version) ==
    /\ CanInteract
    /\ View = "detail"
    /\ version \in ToggleArguments
    /\ metricDetails' = ToggleDeleteMerge(metricDetails, version)
    /\ last' = Step("handleToggleDelete", NoRequest, 0, EmptyMetric, metricDetails,
                    <<>>, version)
    /\ calls' = <<>>
    /\ issued' = <<>>
    /\ events' = events + 1
    /\ UNCHANGED <<metricFqn, isLoading, isError, metricPermissions, pending, inflight,
                   permissionFqn, had404, fetchSettled>>

----------------------------------------------------------------------------
(* handleUpdateVote, lines 240-255, and updateMetricDetails, lines 257-264 *)

\* line 242; the entity of line 243 is read by the fqn of the calling render
HandleUpdateVote ==
    /\ CanInteract
    /\ HasRoom(1)
    /\ View = "detail"
    /\ issued' = <<Request("updateMetricVote", metricFqn,
                                             MetricId(metricDetails), "")>>
    /\ inflight' = inflight \o issued'
    /\ last' = Step("handleUpdateVote.called", NoRequest, 0, EmptyMetric,
                    EmptyMetric, <<>>, <<>>)
    /\ calls' = <<>>
    /\ events' = events + 1
    /\ UNCHANGED <<metricFqn, metricDetails, isLoading, isError, metricPermissions,
                   pending, permissionFqn, had404, fetchSettled>>

\* lines 242-250: the vote is accepted and the entity is asked for again
VoteResolved(i) ==
    /\ pending = {}
    /\ i \in 1..Len(inflight)
    /\ inflight[i].kind = "updateMetricVote"
    /\ issued' = <<Request("getMetricByFqn", inflight[i].fqn, inflight[i].id, "")>>
    /\ inflight' = Remove(inflight, i) \o issued'
    /\ last' = Step("handleUpdateVote.voted", inflight[i], 200, EmptyMetric,
                    EmptyMetric, <<>>, <<>>)
    /\ calls' = <<>>
    /\ UNCHANGED <<metricFqn, metricDetails, isLoading, isError, metricPermissions,
                   pending, permissionFqn, had404, fetchSettled, events>>

\* a re-fetch whose answer is merged into the entity already held
VoteReplace_Merged(previous, details) == Spread(previous, details)

\* line 251: setMetricDetails(details)
VoteReplace(previous, details) == details

VoteFetchResolved(i, details) ==
    /\ pending = {}
    /\ i \in 1..Len(inflight)
    /\ inflight[i].kind = "getMetricByFqn"
    /\ details \in VotePayloads(inflight[i].fqn)
    /\ inflight' = Overtake(Remove(inflight, i))
    /\ metricDetails' = VoteReplace(metricDetails, details)
    /\ last' = Step("handleUpdateVote.resolved", inflight[i], 200, details,
                    metricDetails, <<>>, <<>>)
    /\ calls' = <<>>
    /\ issued' = <<>>
    /\ UNCHANGED <<metricFqn, isLoading, isError, metricPermissions, pending, permissionFqn,
                   had404, fetchSettled, events>>

\* the failures the two requests of handleUpdateVote are answered with
VoteFailureStatuses == {FORBIDDEN, Failure.server}

VoteCatch_Forbidden(status) ==
    IF status = FORBIDDEN THEN <<"history.replace(FORBIDDEN)">> ELSE <<"showErrorToast">>

\* lines 252-254: what the catch block does with the error of either request
VoteCatch(status) == <<"showErrorToast">>

VoteRejected(i, status) ==
    /\ pending = {}
    /\ i \in 1..Len(inflight)
    /\ inflight[i].kind \in {"updateMetricVote", "getMetricByFqn"}
    /\ status \in VoteFailureStatuses
    /\ inflight' = Remove(inflight, i)
    /\ last' = Step(IF inflight[i].kind = "updateMetricVote"
                    THEN "handleUpdateVote.voteRejected" ELSE "handleUpdateVote.fetchRejected",
                    inflight[i], status, EmptyMetric, EmptyMetric, <<>>, <<>>)
    /\ calls' = VoteCatch(status)
    /\ issued' = <<>>
    /\ UNCHANGED <<metricFqn, metricDetails, isLoading, isError, metricPermissions,
                   pending, permissionFqn, had404, fetchSettled, events>>

\* what the detail view hands to onUpdateMetricDetails
UpdatedDataSet == { [version |-> 5] }

\* lines 260-263: data is never null, so `data ?? updatedData` is data
UpdateDetailsMerge(data, updatedData) == SpreadKey(data, "version", updatedData)

UpdateMetricDetails(updatedData) ==
    /\ CanInteract
    /\ View = "detail"
    /\ updatedData \in UpdatedDataSet
    /\ metricDetails' = UpdateDetailsMerge(metricDetails, updatedData)
    /\ last' = Step("updateMetricDetails", NoRequest, 0, updatedData, metricDetails,
                    <<>>, <<>>)
    /\ calls' = <<>>
    /\ issued' = <<>>
    /\ events' = events + 1
    /\ UNCHANGED <<metricFqn, isLoading, isError, metricPermissions, pending, inflight,
                   permissionFqn, had404, fetchSettled>>

----------------------------------------------------------------------------

Init ==
    /\ metricFqn = "sales.revenue"
    /\ metricDetails = EmptyMetric
    /\ isLoading = TRUE
    /\ isError = FALSE
    /\ metricPermissions = DEFAULT_ENTITY_PERMISSION
    /\ pending = {"permission", "detail"}
    /\ inflight = <<>>
    /\ last = Step("mount", NoRequest, 0, EmptyMetric, EmptyMetric, <<>>, <<>>)
    /\ calls = <<>>
    /\ issued = <<>>
    /\ permissionFqn = ""
    /\ had404 = FALSE
    /\ fetchSettled = FALSE
    /\ events = 0

Next ==
    \/ RunEffects
    \/ \E fqn \in Fqns : ChangeFqn(fqn)
    \/ \E i \in 1..MaxInflight, permissions \in PermissionSets, batched \in BOOLEAN :
           PermissionResolved(i, permissions, batched)
    \/ \E i \in 1..MaxInflight : PermissionRejected(i)
    \/ RefreshMetricDetails
    \/ \E i \in 1..MaxInflight, res \in UNION {LoaderPayloads(fqn) : fqn \in Fqns} :
           FetchResolved(i, res)
    \/ \E i \in 1..MaxInflight, status \in FailureStatuses : FetchRejected(i, status)
    \/ \E key \in Keys : HandleMetricUpdate(key)
    \/ \E i \in 1..MaxInflight, res \in UNION {PatchPayloads(id) : id \in Fqns \cup {"undefined"}} :
           MetricUpdateResolved(i, res)
    \/ \E i \in 1..MaxInflight : MetricUpdateRejected(i)
    \/ FollowMetric
    \/ UnFollowMetric
    \/ \E i \in 1..MaxInflight, newValue \in FollowerDeltas : FollowResolved(i, newValue)
    \/ \E i \in 1..MaxInflight, oldValue \in FollowerDeltas : UnFollowResolved(i, oldValue)
    \/ \E i \in 1..MaxInflight : FollowRejected(i)
    \/ VersionHandler
    \/ HandleCreateThread
    \/ \E i \in 1..MaxInflight, ok \in BOOLEAN : CreateThreadSettled(i, ok)
    \/ \E version \in ToggleArguments : HandleToggleDelete(version)
    \/ HandleUpdateVote
    \/ \E i \in 1..MaxInflight : VoteResolved(i)
    \/ \E i \in 1..MaxInflight, details \in UNION {VotePayloads(fqn) : fqn \in Fqns} :
           VoteFetchResolved(i, details)
    \/ \E i \in 1..MaxInflight, status \in VoteFailureStatuses : VoteRejected(i, status)
    \/ \E updatedData \in UpdatedDataSet : UpdateMetricDetails(updatedData)

Spec == Init /\ [][Next]_vars

----------------------------------------------------------------------------
(* Properties *)

CountCalls(name) == Cardinality({j \in DOMAIN calls : calls[j] = name})

IssuedFetches == {j \in DOMAIN issued : issued[j].kind = "fetchMetricDetail"}

\* C1: every fetchMetricDetail request is sent for an fqn whose own permission
\* request has been answered and has granted ViewAll or ViewBasic.
C1_FetchOnlyAfterOwnPermission ==
    \A j \in IssuedFetches :
        permissionFqn = issued[j].fqn /\ Granted(metricPermissions)

\* C2: when a fetchMetricDetail call succeeds, metricDetails is the fetched
\* payload and isLoading is false at the end of the call.
C2_FetchSuccessReplaces ==
    last.op = "fetchMetricDetail.resolved" =>
        metricDetails = last.res /\ isLoading = FALSE

\* a successful fetch that replaces a different, non-empty entity while
\* another request is still awaited
C2_Witness ==
    /\ last.op = "fetchMetricDetail.resolved"
    /\ last.prev # EmptyMetric
    /\ DOMAIN last.prev # DOMAIN last.res
    /\ inflight # <<>>

\* C3: once a fetch has failed with 404, whenever isLoading is false the page
\* renders the not-found placeholder.
C3_NotFoundExclusive ==
    (had404 /\ ~isLoading) => View = "notFound"

\* after the 404 the permissions were answered again, without a grant
C3_Witness ==
    /\ had404
    /\ ~isLoading
    /\ last.op = "fetchResourcePermission.resolved"
    /\ ~Granted(metricPermissions)

\* C4: the step of fetchMetricDetail that handles a 404 sets isError, keeps
\* metricDetails and metricPermissions, and neither navigates nor toasts.
C4_NotFoundFrame ==
    [][(last'.op = "fetchMetricDetail.rejected" /\ last'.status = NOT_FOUND) =>
          /\ isError' = TRUE
          /\ metricDetails' = metricDetails
          /\ metricPermissions' = metricPermissions
          /\ calls' = <<>>]_vars

\* a 404 answered to a page that holds an entity and was not in error
C4_Witness ==
    /\ last.op = "fetchMetricDetail.rejected"
    /\ last.status = NOT_FOUND
    /\ metricDetails # EmptyMetric
    /\ Granted(metricPermissions)
    /\ isError

\* C5 as stated: a 403 on any entity fetch by fqn, the re-fetch of the vote
\* handler included, navigates to the forbidden route exactly once.
C5_Original ==
    (last.op \in {"fetchMetricDetail.rejected", "handleUpdateVote.fetchRejected"}
        /\ last.status = FORBIDDEN) =>
        CountCalls("history.replace(FORBIDDEN)") = 1

\* C5: a 403 on fetchMetricDetail navigates to the forbidden route exactly
\* once; a 403 on the re-fetch of the vote handler navigates nowhere and shows
\* one error toast.
C5_ForbiddenNavigation ==
    /\ (last.op = "fetchMetricDetail.rejected" /\ last.status = FORBIDDEN) =>
           calls = <<"history.replace(FORBIDDEN)">>
    /\ (last.op = "handleUpdateVote.fetchRejected" /\ last.status = FORBIDDEN) =>
           calls = <<"showErrorToast">>

\* a 403 answered to a page that already holds an entity
C5_Witness ==
    /\ last.op = "fetchMetricDetail.rejected"
    /\ last.status = FORBIDDEN
    /\ metricDetails # EmptyMetric
    /\ CountCalls("history.replace(FORBIDDEN)") = 1

\* the keys of either object other than the given ones
OtherKeys(obj, other, keys) == ((DOMAIN obj) \cup (DOMAIN other)) \ keys

\* C6: a successful followMetric leaves the follower list held at the merge,
\* followed by the added followers, and changes no other field.
C6_FollowAppends ==
    [][last'.op = "followMetric.resolved" =>
          /\ "followers" \in DOMAIN metricDetails'
          /\ metricDetails'.followers = FollowersOf(metricDetails) \o last'.users
          /\ \A k \in OtherKeys(metricDetails', metricDetails, {"followers"}) :
                 SameAt(metricDetails', metricDetails, k)]_vars

\* the entity was fetched between the follow request and its answer, and the
\* added follower goes behind the fetched ones
C6_Witness ==
    /\ last.op = "followMetric.resolved"
    /\ last.req.id # MetricId(last.prev)
    /\ Len(FollowersOf(last.prev)) >= 2
    /\ metricDetails.followers = FollowersOf(last.prev) \o last.users

\* C7: a successful unFollowMetric removes every entry of the answered id,
\* keeps the other entries in order, and changes no other field.
C7_UnFollowFilters ==
    [][last'.op = "unFollowMetric.resolved" =>
          LET before == FollowersOf(metricDetails)
              after == metricDetails'.followers
              kept == {j \in DOMAIN before : before[j] # last'.users[1]}
          IN  /\ "followers" \in DOMAIN metricDetails'
              /\ Len(after) = Cardinality(kept)
              /\ \A j \in DOMAIN after : after[j] # last'.users[1]
              /\ \A j \in kept :
                     after[Cardinality({h \in kept : h <= j})] = before[j]
              /\ \A k \in OtherKeys(metricDetails', metricDetails, {"followers"}) :
                     SameAt(metricDetails', metricDetails, k)]_vars

\* the removed id was held twice, around an entry that stays
C7_Witness ==
    /\ last.op = "unFollowMetric.resolved"
    /\ Cardinality({j \in DOMAIN FollowersOf(last.prev) :
                        FollowersOf(last.prev)[j] = last.users[1]}) = 2
    /\ Len(metricDetails.followers) >= 1

\* the value of the deleted flag as JavaScript negates it
Deleted(details) == IF "deleted" \in DOMAIN details THEN details.deleted ELSE FALSE

\* C8: handleToggleDelete(v) negates deleted, sends nothing, sets version to v
\* whenever v is supplied (0 included), keeps version when no argument is
\* supplied, and changes no other field.
C8_ToggleDelete ==
    [][last'.op = "handleToggleDelete" =>
          /\ "deleted" \in DOMAIN metricDetails'
          /\ metricDetails'.deleted = ~Deleted(metricDetails)
          /\ issued' = <<>>
          /\ inflight' = inflight
          /\ (last'.arg # <<>>) =>
                 ("version" \in DOMAIN metricDetails'
                     /\ metricDetails'.version = last'.arg[1])
          /\ (last'.arg = <<>>) => SameAt(metricDetails', metricDetails, "version")
          /\ \A k \in OtherKeys(metricDetails', metricDetails, {"deleted", "version"}) :
                 SameAt(metricDetails', metricDetails, k)]_vars

IsSortedCaseInsensitive(tags) ==
    \A h, j \in DOMAIN tags : h < j => ToLowerCase(tags[h]) <= ToLowerCase(tags[j])

SameTags(tags, other) ==
    /\ Len(tags) = Len(other)
    /\ \A t \in {tags[j] : j \in DOMAIN tags} \cup {other[j] : j \in DOMAIN other} :
           Cardinality({j \in DOMAIN tags : tags[j] = t})
               = Cardinality({j \in DOMAIN other : other[j] = t})

\* C9: a successful handleMetricUpdate(updatedData, key) leaves the answer's
\* value at key (for tags: the answer's tags in case-insensitive order) and the
\* answer's version, and keeps every other key as it was before the merge.
C9_UpdateMergesOneKey ==
    [][last'.op = "handleMetricUpdate.resolved" =>
          LET key == last'.req.key
              res == last'.res
          IN  /\ IF key = "tags"
                 THEN /\ "tags" \in DOMAIN metricDetails'
                      /\ SameTags(metricDetails'.tags, TagsOf(res))
                      /\ IsSortedCaseInsensitive(metricDetails'.tags)
                 ELSE SameAt(metricDetails', res, key)
              /\ SameAt(metricDetails', res, "version")
              /\ \A k \in OtherKeys(metricDetails', metricDetails, {key, "version"}) :
                     SameAt(metricDetails', metricDetails, k)]_vars

\* the answer's tags were out of order and the answer differs from the page
\* in a key that was not updated
C9_Witness ==
    /\ last.op = "handleMetricUpdate.resolved"
    /\ last.req.key = "tags"
    /\ ~IsSortedCaseInsensitive(last.res.tags)
    /\ IsSortedCaseInsensitive(metricDetails.tags)
    /\ ~SameAt(last.res, last.prev, "description")
    /\ SameAt(metricDetails, last.prev, "description")
    /\ metricDetails.version = last.res.version

\* C10: a failed permission request keeps metricPermissions, shows one error
\* toast, ends with isLoading false and starts no entity fetch.
C10_PermissionFailure ==
    [][last'.op = "fetchResourcePermission.rejected" =>
          /\ metricPermissions' = metricPermissions
          /\ calls' = <<"showErrorToast">>
          /\ isLoading' = FALSE
          /\ issued' = <<>>
          /\ pending' = {}]_vars

\* the request failed while permissions granted earlier are held
C10_Witness ==
    /\ last.op = "fetchResourcePermission.rejected"
    /\ Granted(metricPermissions)
    /\ permissionFqn # last.req.fqn
    /\ ~isLoading

----------------------------------------------------------------------------
(* Failure of the mutation handlers *)

\* the steps in which a mutation handler's try block has thrown
HandlerRejections ==
    {"handleMetricUpdate.rejected", "followMetric.rejected", "unFollowMetric.rejected",
     "handleUpdateVote.voteRejected", "handleUpdateVote.fetchRejected",
     "handleCreateThread.rejected"}

\* C11: when a step of the update, follow, unfollow, vote or thread-creation
\* handler throws, the handler shows exactly one error toast and nothing else,
\* and metricDetails, metricPermissions, isLoading and isError keep their values.
C11_HandlerFailure ==
    [][last'.op \in HandlerRejections =>
          /\ calls' = <<"showErrorToast">>
          /\ metricDetails' = metricDetails
          /\ metricPermissions' = metricPermissions
          /\ isLoading' = isLoading
          /\ isError' = isError]_vars

\* the second request of handleUpdateVote has failed on a loaded entity
C11_Witness ==
    /\ last.op = "handleUpdateVote.fetchRejected"
    /\ last.status = FORBIDDEN
    /\ calls = <<"showErrorToast">>
    /\ metricDetails # EmptyMetric

----------------------------------------------------------------------------
(* The mutation handlers and the coarse view state *)

\* the step in which a mutation handler is invoked
HandlerCalls ==
    {"handleMetricUpdate.called", "followMetric.called", "unFollowMetric.called",
     "handleUpdateVote.called", "handleToggleDelete", "versionHandler",
     "handleCreateThread.called"}

\* the step in which a mutation handler runs to its end
HandlerCompletions ==
    {"handleMetricUpdate.resolved", "followMetric.resolved", "unFollowMetric.resolved",
     "handleUpdateVote.resolved", "handleCreateThread.resolved", "handleToggleDelete",
     "versionHandler"} \cup HandlerRejections

\* every step of a mutation handler
HandlerSteps == HandlerCalls \cup HandlerCompletions \cup {"handleUpdateVote.voted"}

\* the Ready view: not loading, no error, ViewAll or ViewBasic granted
Ready == ~isLoading /\ ~isError /\ Granted(metricPermissions)

\* C12 as stated: a mutation handler starts in the Ready view and the coarse
\* view state at its completion equals the one at its start, so the page is
\* in the Ready view when a handler is invoked and when a handler completes.
C12_Original ==
    last.op \in HandlerCalls \cup HandlerCompletions => Ready

\* C12: a mutation handler is invoked only in the Ready view, and no step of a
\* handler changes isLoading, isError or metricPermissions: the coarse view
\* state just after a handler step equals the one just before it.
C12_HandlersKeepView ==
    /\ [](last.op \in HandlerCalls => Ready)
    /\ [][last'.op \in HandlerSteps =>
              /\ isLoading' = isLoading
              /\ isError' = isError
              /\ metricPermissions' = metricPermissions]_vars

\* a handler has completed with a merge while the page was in the Ready view
C12_Witness ==
    /\ last.op = "handleMetricUpdate.resolved"
    /\ Ready
    /\ metricDetails # last.prev

----------------------------------------------------------------------------
(* The coarse state machine *)

\* C13: in a committed state whose effects have run, the detail view is
\* rendered only after an entity fetch has been issued and has completed.
C13_DetailOnlyAfterFetch ==
    (View = "detail" /\ pending = {}) => fetchSettled

----------------------------------------------------------------------------
(* Overlapping requests that replace metricDetails *)

\* the steps that replace metricDetails wholesale (lines 138 and 251)
WholesaleSteps == {"fetchMetricDetail.resolved", "handleUpdateVote.resolved"}

\* how many requests equal to req are in flight in seq
CountRequests(seq, req) ==
    Cardinality({j \in DOMAIN seq :
                    [seq[j] EXCEPT !.overtaken = FALSE] = [req EXCEPT !.overtaken = FALSE]})

\* C14: whenever a response of fetchMetricDetail or of the vote re-fetch
\* arrives, metricDetails becomes that response's payload, whatever was issued
\* or answered before it, so the response that arrives last wins; and no step
\* takes a request out of flight other than the one request it answers.
C14_LastResponseWins ==
    /\ [](last.op \in WholesaleSteps => metricDetails = last.res)
    /\ [][\A j \in DOMAIN inflight :
              CountRequests(inflight', inflight[j]) >=
                  CountRequests(inflight, inflight[j])
                      - CountRequests(<<last'.req>>, inflight[j])]_vars

\* two requests for the entity overlapped; the one for the current fqn was
\* answered first and the fetch for the previous fqn last, and its payload is held
C14_Witness ==
    /\ last.op = "fetchMetricDetail.resolved"
    /\ last.req.overtaken
    /\ last.req.fqn # metricFqn
    /\ last.prev # EmptyMetric
    /\ last.prev.fullyQualifiedName = metricFqn
    /\ metricDetails = last.res
    /\ metricDetails.fullyQualifiedName # metricFqn

----------------------------------------------------------------------------
(* handleUpdateVote *)

\* every step of handleUpdateVote
VoteSteps ==
    {"handleUpdateVote.called", "handleUpdateVote.voted", "handleUpdateVote.resolved",
     "handleUpdateVote.voteRejected", "handleUpdateVote.fetchRejected"}

\* C15: the re-fetch of handleUpdateVote is sent only by the step that receives
\* the successful answer of the vote request; when the re-fetch succeeds
\* metricDetails is exactly its response; no step of the handler changes isLoading.
C15_VoteThenFetch ==
    [][/\ \A j \in DOMAIN issued' :
              issued'[j].kind = "getMetricByFqn" =>
                  /\ last'.op = "handleUpdateVote.voted"
                  /\ last'.status = 200
                  /\ last'.req.kind = "updateMetricVote"
                  /\ CountRequests(inflight, last'.req) >= 1
       /\ last'.op = "handleUpdateVote.resolved" => metricDetails' = last'.res
       /\ last'.op \in VoteSteps => isLoading' = isLoading]_vars

\* the re-fetch has replaced an entity that had a field its response lacks
C15_Witness ==
    /\ last.op = "handleUpdateVote.resolved"
    /\ "extension" \in DOMAIN last.prev
    /\ "extension" \notin DOMAIN metricDetails
    /\ metricDetails = last.res
    /\ ~isLoading

----------------------------------------------------------------------------
(* Failure of fetchMetricDetail *)

\* C16: a fetchMetricDetail call that fails with a status other than 404 and
\* 403, or with no response, shows exactly one error toast, does not navigate
\* and keeps isError, metricDetails and metricPermissions; every failed call
\* has exactly one of the outcomes set isError, navigate, show a toast.
C16_FetchFailureOutcome ==
    [][last'.op = "fetchMetricDetail.rejected" =>
          /\ last'.status \notin {NOT_FOUND, FORBIDDEN} =>
                 /\ calls' = <<"showErrorToast">>
                 /\ isError' = isError
                 /\ metricDetails' = metricDetails
                 /\ metricPermissions' = metricPermissions
          /\ \/ calls' = <<>> /\ isError'
             \/ calls' = <<"history.replace(FORBIDDEN)">> /\ isError' = isError
             \/ calls' = <<"showErrorToast">> /\ isError' = isError]_vars

\* a refresh of a loaded entity has failed without a response
C16_Witness ==
    /\ last.op = "fetchMetricDetail.rejected"
    /\ last.status = Failure.network
    /\ calls = <<"showErrorToast">>
    /\ ~isError
    /\ metricDetails # EmptyMetric

----------------------------------------------------------------------------
(* fetchMetricDetail called twice *)

\* the four state cells that decide what is rendered
ViewState == [metricDetails |-> metricDetails, isLoading |-> isLoading,
              isError |-> isError, metricPermissions |-> metricPermissions]

\* the state cells after a whole fetchMetricDetail call that starts in the
\* current state and is answered with status and res (lines 121-166)
FetchAgain(status, res) ==
    IF status = 200
    THEN [ViewState EXCEPT
              !.metricDetails = FetchSuccessState(metricDetails, res).metricDetails,
              !.isLoading = FetchSuccessState(metricDetails, res).isLoading]
    ELSE [ViewState EXCEPT !.isError = FetchCatch(status).isError, !.isLoading = FALSE]

\* C17: when a fetchMetricDetail call has ended, a second call that receives
\* the same answer leaves metricDetails, isLoading, isError and
\* metricPermissions as the first call left them.
C17_FetchIdempotent ==
    [][last'.op \in {"fetchMetricDetail.resolved", "fetchMetricDetail.rejected"} =>
          \A status \in FailureStatuses \cup {200} :
              \A res \in UNION {LoaderPayloads(fqn) : fqn \in Fqns} \cup {EmptyMetric} :
                  (status = last'.status /\ res = last'.res) =>
                      FetchAgain(status, res)' = ViewState']_vars

\* a second call has received the payload the first call had stored
C17_Witness ==
    /\ last.op = "fetchMetricDetail.resolved"
    /\ last.prev = last.res
    /\ metricDetails = last.res
    /\ ~isLoading

----------------------------------------------------------------------------
(* isLoading and the requests in flight *)

\* a permission request or an entity-loader request is awaiting its answer
LoaderInFlight ==
    \E j \in DOMAIN inflight :
        inflight[j].kind \in {"getEntityPermissionByFqn", "fetchMetricDetail"}

\* C18: isLoading is true whenever a permission request or an entity-loader
\* request is in flight.
C18_LoadingWhileInFlight == LoaderInFlight => isLoading

----------------------------------------------------------------------------
(* Termination of the loading phase *)

\* some request in flight receives its response or its error
Respond ==
    \/ \E i \in 1..MaxInflight, permissions \in PermissionSets, batched \in BOOLEAN :
           PermissionResolved(i, permissions, batched)
    \/ \E i \in 1..MaxInflight : PermissionRejected(i)
    \/ \E i \in 1..MaxInflight, res \in UNION {LoaderPayloads(fqn) : fqn \in Fqns} :
           FetchResolved(i, res)
    \/ \E i \in 1..MaxInflight, status \in FailureStatuses : FetchRejected(i, status)
    \/ \E i \in 1..MaxInflight, res \in UNION {PatchPayloads(id) : id \in Fqns \cup {"undefined"}} :
           MetricUpdateResolved(i, res)
    \/ \E i \in 1..MaxInflight : MetricUpdateRejected(i)
    \/ \E i \in 1..MaxInflight, newValue \in FollowerDeltas : FollowResolved(i, newValue)
    \/ \E i \in 1..MaxInflight, oldValue \in FollowerDeltas : UnFollowResolved(i, oldValue)
    \/ \E i \in 1..MaxInflight : FollowRejected(i)
    \/ \E i \in 1..MaxInflight, ok \in BOOLEAN : CreateThreadSettled(i, ok)
    \/ \E i \in 1..MaxInflight : VoteResolved(i)
    \/ \E i \in 1..MaxInflight, details \in UNION {VotePayloads(fqn) : fqn \in Fqns} :
           VoteFetchResolved(i, details)
    \/ \E i \in 1..MaxInflight, status \in VoteFailureStatuses : VoteRejected(i, status)

\* The page under the scheduling the claim assumes: pending effects are always
\* flushed, and every request in flight is eventually answered.  The route and
\* the user are free to stop; the route changes at most MaxEvents times.
FairSpec == Spec /\ WF_vars(RunEffects) /\ WF_vars(Respond)

\* not loading, and no permission or entity-loader request in flight
Settled == ~isLoading /\ ~LoaderInFlight

\* C19: the page always reaches a state with isLoading false and no permission
\* or entity-loader request in flight, and leaves such a state only by a step
\* that sends a new permission or entity-loader request.
C19_LoadingEnds ==
    /\ []<>Settled
    /\ [][(Settled /\ ~Settled') =>
              \E j \in DOMAIN issued' :
                  issued'[j].kind \in {"getEntityPermissionByFqn", "fetchMetricDetail"}]_vars

\* the loading phase has ended after the route changed and the entity was fetched
C19_Witness ==
    /\ Settled
    /\ pending = {}
    /\ inflight = <<>>
    /\ events >= 1
    /\ last.op = "fetchMetricDetail.resolved"
    /\ metricDetails.fullyQualifiedName = metricFqn

----------------------------------------------------------------------------
(* isError *)

\* C20: isError starts false, becomes true only in the step in which a
\* fetchMetricDetail call fails with 404, and is never set back to false.
C20_ErrorMonotone ==
    /\ isError = FALSE
    /\ [][/\ isError => isError'
          /\ (~isError /\ isError') =>
                 /\ last'.op = "fetchMetricDetail.rejected"
                 /\ last'.req.kind = "fetchMetricDetail"
                 /\ last'.status = NOT_FOUND]_vars

\* after a 404 a later answer of fetchMetricDetail was a success, and isError
\* is still true
C20_Witness ==
    /\ isError
    /\ last.op = "fetchMetricDetail.resolved"
    /\ metricDetails = last.res
    /\ metricDetails.fullyQualifiedName = metricFqn
    /\ events >= 1

====
